---- MODULE Spec2Model ----
(***************************************************************************)
(* The happy-thoughts API (src/server.js): an Express service over one     *)
(* mongoose model, Thought.  The store is the sequence of persisted        *)
(* documents in insertion order.  Every async route handler runs in three  *)
(* steps: its synchronous prefix up to the await (Recv...), the store call *)
(* it awaits (Exec..., one atomic store operation), and its continuation   *)
(* after the await, which writes the response (Respond).  Handlers of      *)
(* different requests interleave between these steps.                      *)
(***************************************************************************)
EXTENDS Integers, Sequences, FiniteSets

\* Program constants.
MinLen == 5
MaxLen == 140
Limit == 20
BadId == 0          \* an :id that does not cast to an ObjectId

\* Bounds of the model.
MaxInFlight == 2    \* requests handled concurrently
MaxClock == 1       \* the last clock reading
MaxCreates == 2     \* create requests received (Spec, SpecCreate, SpecSeq)
MaxLikes == 2       \* like requests with a valid action received
ListExtra == 1      \* documents beyond Limit (SpecList)

VARIABLES
  thoughts,   \* the collection: a sequence of documents, in insertion order
  storeUp,    \* whether the store answers
  now,        \* the clock, as new Date() reads it
  nextId,     \* the next ObjectId mongoose generates
  slots,      \* the requests in flight, each with its handler's position
  resp,       \* the response written by the latest step, or NoResp
  adds,       \* history: per id, the successful "add" responses
  removes,    \* history: per id, the successful "remove" responses
  likesRecv   \* history: like requests that reached the store call

vars == <<thoughts, storeUp, now, nextId, slots, resp, adds, removes, likesRecv>>

----------------------------------------------------------------------------
\* Values

None == [has |-> FALSE, val |-> <<>>]
Some(v) == [has |-> TRUE, val |-> v]
NoneN == [has |-> FALSE, val |-> 0]
SomeN(n) == [has |-> TRUE, val |-> n]

\* A string of n characters.
Msg(n) == [i \in 1..n |-> "a"]

NoDoc == [id |-> 0, message |-> None, hearts |-> 0, createdAt |-> 0]
NoBody == [message |-> None, hearts |-> NoneN, createdAt |-> NoneN, id |-> NoneN]
NoReq == [kind |-> "none", id |-> 0, action |-> "", body |-> NoBody, issuedAt |-> 0]
NoErr == [kind |-> "", length |-> 0]
NoResult ==
  [ok |-> FALSE, cause |-> "", errors |-> NoErr, doc |-> NoDoc, found |-> FALSE, list |-> <<>>]
Idle ==
  [phase |-> "idle", req |-> NoReq, doc |-> NoDoc, result |-> NoResult, pre |-> 0, post |-> 0]
NoResp ==
  [status |-> 0, req |-> NoReq, doc |-> NoDoc, list |-> <<>>, error |-> "",
   errors |-> NoErr, cause |-> "", pre |-> 0, post |-> 0]

\* The message lengths a client sends: around both limits, and the empty string.
TestLens == {0, MinLen - 1, MinLen, MaxLen, MaxLen + 1}

\* The bodies of POST /thoughts: no message, a message of each length, and a
\* valid message beside fields the client has no business setting.
Bodies ==
  {[NoBody EXCEPT !.message = None]}
    \cup {[NoBody EXCEPT !.message = Some(Msg(n))] : n \in TestLens}
    \cup {[message |-> Some(Msg(MinLen)), hearts |-> SomeN(7),
           createdAt |-> SomeN(0), id |-> SomeN(1)]}

\* The :id of a like request: malformed, or an ObjectId (in use or not).
LikeIds == {BadId} \cup (1..(MaxCreates + 1))

\* The action of a like request ("" is a body without action).
Actions == {"add", "remove", "toggle", ""}

----------------------------------------------------------------------------
\* The Thought schema

RequiredOk(m) == m.has /\ Len(m.val) > 0

MinOkStrict(v) == Len(v) > MinLen

MinOk(v) == Len(v) >= MinLen

MaxOk(v) == Len(v) <= MaxLen

\* Document validation, as save() runs it: the first failing validator of
\* the path is the error reported.
ValidateMessage(m) ==
  IF ~RequiredOk(m) THEN [kind |-> "required", length |-> 0]
  ELSE IF ~MinOk(m.val) THEN [kind |-> "minlength", length |-> Len(m.val)]
  ELSE IF ~MaxOk(m.val) THEN [kind |-> "maxlength", length |-> Len(m.val)]
  ELSE NoErr

\* hearts: { default: 0 }
HeartsDefault == 0

\* createdAt: { default: () => new Date() }, evaluated at construction.
CreatedAtDefault(t) == t

NewThoughtFromBody(body, id, t) ==
  [id |-> IF body.id.has THEN body.id.val ELSE id,
   message |-> body.message,
   hearts |-> IF body.hearts.has THEN body.hearts.val ELSE HeartsDefault,
   createdAt |-> IF body.createdAt.has THEN body.createdAt.val ELSE CreatedAtDefault(t)]

\* new Thought({ message: req.body.message }): only the message is taken
\* from the body; the id is generated, hearts and createdAt are defaulted.
NewThought(body, id, t) ==
  [id |-> id, message |-> body.message, hearts |-> HeartsDefault,
   createdAt |-> CreatedAtDefault(t)]

----------------------------------------------------------------------------
\* Store calls.  Each returns the store after the call and the call's result.

IsObjectId(id) == id # BadId

Index(store, id) ==
  IF \E i \in 1..Len(store) : store[i].id = id
  THEN CHOOSE i \in 1..Len(store) : store[i].id = id
  ELSE 0

Failure(cause, errors) == [NoResult EXCEPT !.cause = cause, !.errors = errors]

\* thought.save(): validate, then insert.
Save(store, doc, up) ==
  LET e == ValidateMessage(doc.message) IN
  IF e # NoErr THEN [store |-> store, result |-> Failure("validation", e)]
  ELSE IF ~up THEN [store |-> store, result |-> Failure("store", NoErr)]
  ELSE [store |-> Append(store, doc),
        result |-> [NoResult EXCEPT !.ok = TRUE, !.doc = doc, !.found = TRUE]]

AcceptsAnyAction(action) == TRUE

\* ["add", "remove"].includes(action)
IsValidAction(action) == action \in {"add", "remove"}

UpdateAlwaysInc(action) == 1

\* The update document: { $inc: { hearts: 1 } } or { $inc: { hearts: -1 } }.
Update(action) == IF action = "add" THEN 1 ELSE -1

\* $inc applied to one document.  Update validators do not run on $inc, so
\* the schema's min is not consulted.
Inc(doc, delta) == [doc EXCEPT !.hearts = @ + delta]

IncAll(store, i, delta) == [j \in 1..Len(store) |-> Inc(store[j], delta)]

IncAt(store, i, delta) == [store EXCEPT ![i] = Inc(@, delta)]

ReturnedOld(before, after) == before

\* { new: true }: the document as it is after the update.
Returned(before, after) == after

\* Thought.findByIdAndUpdate(id, update, { new: true, runValidators: true }):
\* the id is cast, then one atomic findOneAndUpdate.
FindByIdAndUpdate(store, id, delta, up) ==
  LET i == Index(store, id) IN
  IF ~IsObjectId(id) THEN [store |-> store, result |-> Failure("cast", NoErr)]
  ELSE IF ~up THEN [store |-> store, result |-> Failure("store", NoErr)]
  ELSE IF i = 0 THEN [store |-> store, result |-> [NoResult EXCEPT !.ok = TRUE]]
  ELSE LET after == IncAt(store, i, delta) IN
       [store |-> after,
        result |-> [NoResult EXCEPT !.ok = TRUE, !.found = TRUE,
                                    !.doc = Returned(store[i], after[i])]]

\* Insert d into a sequence sorted by createdAt descending, after its ties.
RECURSIVE InsertDesc(_, _)
InsertDesc(sorted, d) ==
  IF sorted = <<>> THEN <<d>>
  ELSE IF Head(sorted).createdAt >= d.createdAt
       THEN <<Head(sorted)>> \o InsertDesc(Tail(sorted), d)
       ELSE <<d>> \o sorted

RECURSIVE InsertAsc(_, _)
InsertAsc(sorted, d) ==
  IF sorted = <<>> THEN <<d>>
  ELSE IF Head(sorted).createdAt <= d.createdAt
       THEN <<Head(sorted)>> \o InsertAsc(Tail(sorted), d)
       ELSE <<d>> \o sorted

RECURSIVE SortAsc(_)
SortAsc(seq) ==
  IF seq = <<>> THEN <<>>
  ELSE InsertAsc(SortAsc(SubSeq(seq, 1, Len(seq) - 1)), seq[Len(seq)])

\* sort({ createdAt: -1 }) of the documents as the scan yields them.
RECURSIVE SortDesc(_)
SortDesc(seq) ==
  IF seq = <<>> THEN <<>>
  ELSE InsertDesc(SortDesc(SubSeq(seq, 1, Len(seq) - 1)), seq[Len(seq)])

Reverse(seq) == [i \in 1..Len(seq) |-> seq[Len(seq) + 1 - i]]

\* limit(20)
Take(seq) == SubSeq(seq, 1, IF Len(seq) < Limit THEN Len(seq) ELSE Limit)

\* Thought.find().sort({ createdAt: -1 }).limit(20).exec().  The order of
\* documents with equal createdAt is the store's: `forward` is the scan the
\* store happens to use.
Find(store, forward, up) ==
  IF ~up THEN Failure("store", NoErr)
  ELSE [NoResult EXCEPT !.ok = TRUE,
          !.list = Take(SortDesc(IF forward THEN store ELSE Reverse(store)))]

----------------------------------------------------------------------------
\* The handlers' responses

Reply(s, status) ==
  [NoResp EXCEPT !.status = status, !.req = s.req, !.cause = s.result.cause,
                 !.pre = s.pre, !.post = s.post]

\* GET /thoughts, after the await.
ListResponse(s) ==
  IF s.result.ok THEN [Reply(s, 200) EXCEPT !.list = s.result.list]
  ELSE [Reply(s, 500) EXCEPT !.error = "Failed to fetch thoughts"]

\* POST /thoughts, after the await: every error is caught as a 400.
CreateResponse(s) ==
  IF s.result.ok THEN [Reply(s, 201) EXCEPT !.doc = s.doc]
  ELSE [Reply(s, 400) EXCEPT !.error = "Could not save thought",
                             !.errors = s.result.errors]

\* PUT /thoughts/:id/like, the action check.
InvalidActionResponse(req) ==
  [NoResp EXCEPT !.status = 400, !.req = req, !.cause = "validation",
                 !.error = "Invalid action. Use 'add' or 'remove'."]

\* PUT /thoughts/:id/like, after the await.
LikeResponse(s) ==
  IF ~s.result.ok THEN [Reply(s, 500) EXCEPT !.error = "Failed to update like"]
  ELSE IF ~s.result.found
       THEN [Reply(s, 404) EXCEPT !.error = "Thought not found", !.cause = "notfound"]
       ELSE [Reply(s, 200) EXCEPT !.doc = s.result.doc]

----------------------------------------------------------------------------
\* Steps

IdleSlots == {s \in DOMAIN slots : slots[s].phase = "idle"}

\* A request is taken by the lowest free slot.
Free(s) == s \in IdleSlots /\ \A t \in IdleSlots : s <= t

Init ==
  /\ thoughts = <<>>
  /\ storeUp = TRUE
  /\ now = 0
  /\ nextId = 1
  /\ slots = [s \in 1..MaxInFlight |-> Idle]
  /\ resp = NoResp
  /\ adds = <<>>
  /\ removes = <<>>
  /\ likesRecv = 0

\* Time passes.
Tick ==
  /\ now < MaxClock
  /\ now' = now + 1
  /\ resp' = NoResp
  /\ UNCHANGED <<thoughts, storeUp, nextId, slots, adds, removes, likesRecv>>

\* The store becomes unreachable, and reachable again.
Disconnect ==
  /\ storeUp
  /\ storeUp' = FALSE
  /\ resp' = NoResp
  /\ UNCHANGED <<thoughts, now, nextId, slots, adds, removes, likesRecv>>

Reconnect ==
  /\ ~storeUp
  /\ storeUp' = TRUE
  /\ resp' = NoResp
  /\ UNCHANGED <<thoughts, now, nextId, slots, adds, removes, likesRecv>>

\* GET /thoughts up to the await.
RecvList(s) ==
  /\ Free(s)
  /\ slots' = [slots EXCEPT ![s] =
       [Idle EXCEPT !.phase = "pending", !.req = [NoReq EXCEPT !.kind = "list"]]]
  /\ resp' = NoResp
  /\ UNCHANGED <<thoughts, storeUp, now, nextId, adds, removes, likesRecv>>

\* POST /thoughts up to the await: the document is constructed, with its id
\* and its defaults; the request was issued at `issued`, not after now.
RecvCreate(s, body, issued) ==
  /\ Free(s)
  /\ issued <= now
  /\ slots' = [slots EXCEPT ![s] =
       [Idle EXCEPT !.phase = "pending",
                    !.req = [NoReq EXCEPT !.kind = "create", !.body = body,
                                          !.issuedAt = issued],
                    !.doc = NewThought(body, nextId, now)]]
  /\ nextId' = nextId + 1
  /\ adds' = Append(adds, 0)
  /\ removes' = Append(removes, 0)
  /\ resp' = NoResp
  /\ UNCHANGED <<thoughts, storeUp, now, likesRecv>>

\* PUT /thoughts/:id/like up to the await, or to the 400 of the action check.
RecvLike(s, id, action) ==
  /\ Free(s)
  /\ LET req == [NoReq EXCEPT !.kind = "like", !.id = id, !.action = action] IN
     IF ~IsValidAction(action)
     THEN /\ resp' = InvalidActionResponse(req)
          /\ UNCHANGED <<slots, likesRecv>>
     ELSE /\ likesRecv < MaxLikes
          /\ likesRecv' = likesRecv + 1
          /\ slots' = [slots EXCEPT ![s] = [Idle EXCEPT !.phase = "pending", !.req = req]]
          /\ resp' = NoResp
  /\ UNCHANGED <<thoughts, storeUp, now, nextId, adds, removes>>

\* The awaited find().
ExecList(s) ==
  /\ slots[s].phase = "pending"
  /\ slots[s].req.kind = "list"
  /\ \E forward \in BOOLEAN :
       slots' = [slots EXCEPT ![s].phase = "resumed",
                              ![s].result = Find(thoughts, forward, storeUp)]
  /\ resp' = NoResp
  /\ UNCHANGED <<thoughts, storeUp, now, nextId, adds, removes, likesRecv>>

\* The awaited save().
ExecCreate(s) ==
  /\ slots[s].phase = "pending"
  /\ slots[s].req.kind = "create"
  /\ LET r == Save(thoughts, slots[s].doc, storeUp) IN
       /\ thoughts' = r.store
       /\ slots' = [slots EXCEPT ![s].phase = "resumed", ![s].result = r.result]
  /\ resp' = NoResp
  /\ UNCHANGED <<storeUp, now, nextId, adds, removes, likesRecv>>

HeartsOf(store, id) == IF Index(store, id) = 0 THEN 0 ELSE store[Index(store, id)].hearts

\* The awaited findByIdAndUpdate().  pre and post record the hearts the
\* store held for the id before and after the call.
ExecLike(s) ==
  /\ slots[s].phase = "pending"
  /\ slots[s].req.kind = "like"
  /\ LET r == FindByIdAndUpdate(thoughts, slots[s].req.id,
                                Update(slots[s].req.action), storeUp) IN
       /\ thoughts' = r.store
       /\ slots' = [slots EXCEPT ![s].phase = "resumed", ![s].result = r.result,
                                 ![s].pre = HeartsOf(thoughts, slots[s].req.id),
                                 ![s].post = HeartsOf(r.store, slots[s].req.id)]
  /\ resp' = NoResp
  /\ UNCHANGED <<storeUp, now, nextId, adds, removes, likesRecv>>

Response(s) ==
  IF s.req.kind = "list" THEN ListResponse(s)
  ELSE IF s.req.kind = "create" THEN CreateResponse(s)
  ELSE LikeResponse(s)

\* A handler's continuation after its await: the response is written.
Respond(s) ==
  /\ slots[s].phase = "resumed"
  /\ resp' = Response(slots[s])
  /\ slots' = [slots EXCEPT ![s] = Idle]
  /\ LET q == slots[s].req
         ok == q.kind = "like" /\ resp'.status = 200 IN
       /\ adds' = IF ok /\ q.action = "add" THEN [adds EXCEPT ![q.id] = @ + 1] ELSE adds
       /\ removes' = IF ok /\ q.action = "remove"
                     THEN [removes EXCEPT ![q.id] = @ + 1] ELSE removes
  /\ UNCHANGED <<thoughts, storeUp, now, nextId, likesRecv>>

----------------------------------------------------------------------------
\* Specifications

Slots == 1..MaxInFlight

AllIdle == \A s \in Slots : slots[s].phase = "idle"

ValidBody == [NoBody EXCEPT !.message = Some(Msg(MinLen))]

\* Clients that create thoughts and like or unlike them, their requests
\* handled concurrently; the store answers.
Next ==
  \/ \E s \in Slots : nextId <= MaxCreates /\ RecvCreate(s, ValidBody, now)
  \/ \E s \in Slots, id \in LikeIds, action \in {"add", "remove"} :
       RecvLike(s, id, action)
  \/ \E s \in Slots : ExecCreate(s)
  \/ \E s \in Slots : ExecLike(s)
  \/ \E s \in Slots : Respond(s)

Spec == Init /\ [][Next]_vars

\* Clients that post every kind of body, their requests handled
\* concurrently, while time passes; the store answers.
NextCreate ==
  \/ Tick
  \/ \E s \in Slots, body \in Bodies, issued \in 0..MaxClock :
       nextId <= MaxCreates /\ RecvCreate(s, body, issued)
  \/ \E s \in Slots : ExecCreate(s)
  \/ \E s \in Slots : Respond(s)

SpecCreate == Init /\ [][NextCreate]_vars

\* One client sending every kind of request, one after the other, while
\* time passes, to a store that may become unreachable at any moment.
NextSeq ==
  \/ Tick
  \/ Disconnect
  \/ Reconnect
  \/ \E s \in Slots : AllIdle /\ RecvList(s)
  \/ \E s \in Slots, n \in {MinLen - 1, MinLen} :
       /\ AllIdle
       /\ nextId <= MaxCreates
       /\ RecvCreate(s, [NoBody EXCEPT !.message = Some(Msg(n))], now)
  \/ \E s \in Slots, id \in LikeIds, action \in Actions :
       AllIdle /\ RecvLike(s, id, action)
  \/ \E s \in Slots : ExecList(s)
  \/ \E s \in Slots : ExecCreate(s)
  \/ \E s \in Slots : ExecLike(s)
  \/ \E s \in Slots : Respond(s)

SpecSeq == Init /\ [][NextSeq]_vars

\* One client that creates and lists, one request after the other, up to
\* more documents than a list returns, while time passes.
NextList ==
  \/ Tick
  \/ \E s \in Slots : AllIdle /\ RecvList(s)
  \/ \E s \in Slots :
       /\ AllIdle
       /\ Len(thoughts) < Limit + ListExtra
       /\ RecvCreate(s, ValidBody, now)
  \/ \E s \in Slots : ExecList(s)
  \/ \E s \in Slots : ExecCreate(s)
  \/ \E s \in Slots : Respond(s)

SpecList == Init /\ [][NextList]_vars

----------------------------------------------------------------------------
\* Properties

Persisted == 1..Len(thoughts)

ExecStep(s, kind) ==
  /\ slots[s].phase = "pending"
  /\ slots[s].req.kind = kind
  /\ slots'[s].phase = "resumed"

RespondStep(s, kind) ==
  /\ slots[s].phase = "resumed"
  /\ slots[s].req.kind = kind
  /\ slots'[s].phase = "idle"

\* C1: in every reachable state every persisted Thought has hearts >= 0.
C1_HeartsNeverNegative == \A i \in Persisted : thoughts[i].hearts >= 0

\* The message is present and its length is in [5,140].
Acceptable(m) == m.has /\ Len(m.val) \in MinLen..MaxLen

\* The constraints a message violates (an empty string counts as missing).
Violated(m) ==
  {k \in {"required", "minlength", "maxlength"} :
     \/ k = "required" /\ (~m.has \/ Len(m.val) = 0)
     \/ k = "minlength" /\ m.has /\ Len(m.val) < MinLen
     \/ k = "maxlength" /\ m.has /\ Len(m.val) > MaxLen}

\* C2: a create request is answered 201, with exactly one new record
\* persisted, if and only if its message is present with a length in
\* [5,140]; otherwise it is answered 400 with a validation error for a
\* violated constraint, and the persisted records are unchanged.
C2_CreateSucceedsIffValid ==
  [][\A s \in Slots :
       LET m == slots[s].req.body.message IN
       /\ ExecStep(s, "create") =>
            IF Acceptable(m)
            THEN /\ Len(thoughts') = Len(thoughts) + 1
                 /\ SubSeq(thoughts', 1, Len(thoughts)) = thoughts
                 /\ thoughts'[Len(thoughts')].message = m
            ELSE thoughts' = thoughts
       /\ RespondStep(s, "create") =>
            /\ thoughts' = thoughts
            /\ resp'.status = 201 <=> Acceptable(m)
            /\ ~Acceptable(m) =>
                 /\ resp'.status = 400
                 /\ resp'.errors.kind \in Violated(m)
                 /\ \A i \in Persisted : thoughts[i].id # slots[s].doc.id]_vars

\* A message one character over the limit is refused after one was accepted.
C2_Witness ==
  /\ resp.req.kind = "create"
  /\ resp.status = 400
  /\ resp.errors.kind = "maxlength"
  /\ \E i \in Persisted : Len(thoughts[i].message.val) = MaxLen

InFlightLikes(id) ==
  {s \in Slots : slots[s].phase # "idle" /\ slots[s].req.kind = "like" /\ slots[s].req.id = id}

\* C3: "add" on an existing record increments its hearts by exactly 1 and
\* the response carries the new stored value; a record that was only ever
\* added to, N times, has hearts = N.
C3_AddIncrementsByOne ==
  /\ [][\A s \in Slots :
          LET id == slots[s].req.id IN
          /\ (ExecStep(s, "like") /\ slots[s].req.action = "add" /\ Index(thoughts, id) # 0) =>
               /\ HeartsOf(thoughts', id) = HeartsOf(thoughts, id) + 1
               /\ slots'[s].result.ok /\ slots'[s].result.found
               /\ slots'[s].result.doc.hearts = HeartsOf(thoughts', id)
          /\ (RespondStep(s, "like") /\ slots[s].req.action = "add" /\ slots[s].result.found) =>
               /\ resp'.status = 200
               /\ resp'.doc.id = id
               /\ resp'.doc.hearts = slots[s].post]_vars
  /\ [](\A i \in Persisted :
          LET id == thoughts[i].id IN
          (InFlightLikes(id) = {} /\ removes[id] = 0) => thoughts[i].hearts = adds[id])

\* Two successive "add" requests were answered, the last with hearts = 2.
C3_Witness ==
  /\ resp.req.kind = "like"
  /\ resp.req.action = "add"
  /\ resp.status = 200
  /\ resp.doc.hearts = 2
  /\ adds[resp.req.id] = 2

\* The updates the store has applied for requests not yet answered.
Applied(id, action) ==
  Cardinality({s \in Slots : /\ slots[s].phase = "resumed"
                             /\ slots[s].req.kind = "like"
                             /\ slots[s].req.id = id
                             /\ slots[s].req.action = action
                             /\ slots[s].result.found})

\* C4: no like update is lost under any interleaving: a record's hearts is
\* its initial 0 plus the successful "add" minus the successful "remove"
\* requests (counting those applied and not yet answered), so once all
\* requests have completed it is adds - removes; and each successful
\* response carries the hearts the record held right after its own update.
C4_NoLostUpdate ==
  /\ \A i \in Persisted :
       LET id == thoughts[i].id IN
       thoughts[i].hearts =
         adds[id] + Applied(id, "add") - removes[id] - Applied(id, "remove")
  /\ AllIdle => \A i \in Persisted :
       thoughts[i].hearts = adds[thoughts[i].id] - removes[thoughts[i].id]
  /\ \A s \in Slots :
       (slots[s].phase = "resumed" /\ slots[s].req.kind = "like" /\ slots[s].result.found)
         => slots[s].result.doc.hearts = slots[s].post
  /\ (resp.req.kind = "like" /\ resp.status = 200) => resp.doc.hearts = resp.post

\* Two like requests against the same record are in flight together, both
\* applied by the store and neither answered.
C4_Witness ==
  \E s, t \in Slots :
    /\ s # t
    /\ slots[s].phase = "resumed" /\ slots[t].phase = "resumed"
    /\ slots[s].req.kind = "like" /\ slots[t].req.kind = "like"
    /\ slots[s].req.id = slots[t].req.id
    /\ slots[s].result.found /\ slots[t].result.found
    /\ slots[s].req.action = "add" /\ slots[t].req.action = "remove"

Min(a, b) == IF a < b THEN a ELSE b

\* l is a newest-first page of the store: min(20, n) distinct persisted
\* records, createdAt descending, none older than a record left out.
LatestOf(l, store) ==
  /\ Len(l) = Min(Limit, Len(store))
  /\ \A k \in 1..Len(l) : Index(store, l[k].id) # 0 /\ store[Index(store, l[k].id)] = l[k]
  /\ \A j, k \in 1..Len(l) : j # k => l[j].id # l[k].id
  /\ \A k \in 1..(Len(l) - 1) : l[k].createdAt >= l[k + 1].createdAt
  /\ \A i \in 1..Len(store) :
       (\A k \in 1..Len(l) : l[k].id # store[i].id)
         => \A k \in 1..Len(l) : l[k].createdAt >= store[i].createdAt

\* C5: after any sequence of successful creates a list request returns
\* exactly min(20, n) records, ordered by createdAt descending, which are
\* the most recently created ones; it changes no persisted record.
C5_ListReturnsLatest ==
  /\ [](resp.req.kind = "list" => (resp.status = 200 /\ LatestOf(resp.list, thoughts)))
  /\ [][\A s \in Slots : (ExecStep(s, "list") \/ RespondStep(s, "list"))
                           => thoughts' = thoughts]_vars

\* A list of 20 out of more than 20 records, created at different times.
C5_Witness ==
  /\ resp.req.kind = "list"
  /\ Len(thoughts) > Limit
  /\ Len(resp.list) = Limit
  /\ resp.list[1].createdAt > resp.list[Limit].createdAt
  /\ \E i \in Persisted : thoughts[i].createdAt = resp.list[Limit].createdAt
                            /\ \A k \in 1..Limit : resp.list[k].id # thoughts[i].id

\* C6: a like request with a valid action whose id identifies no persisted
\* record (unused, or not a well-formed identifier) is answered 404.
C6_UnknownIdIsNotFound ==
  (resp.req.kind = "like" /\ IsValidAction(resp.req.action)
     /\ Index(thoughts, resp.req.id) = 0)
    => resp.status = 404

\* C7: a like request whose action is neither "add" nor "remove" is answered
\* 400 and no store operation is issued for it: no record changes and no
\* store call is left pending, whether or not the id exists or the store is
\* reachable.
C7_InvalidActionRejected ==
  /\ [][(resp'.req.kind = "like" /\ resp'.req.action \notin {"add", "remove"})
          => (resp'.status = 400 /\ thoughts' = thoughts /\ slots' = slots)]_vars
  /\ [](\A s \in Slots :
          (slots[s].phase # "idle" /\ slots[s].req.kind = "like")
            => slots[s].req.action \in {"add", "remove"})

\* An invalid action on an existing id is refused while the store is down.
C7_Witness ==
  /\ resp.req.kind = "like"
  /\ resp.req.action = "toggle"
  /\ resp.status = 400
  /\ ~storeUp
  /\ Index(thoughts, resp.req.id) # 0

\* C8: every failed request is classified by its cause: validation 400,
\* unknown id 404, store failure 500.
C8_ErrorsClassifiedByCause ==
  /\ resp.cause = "validation" => resp.status = 400
  /\ resp.cause = "notfound" => resp.status = 404
  /\ resp.cause = "store" => resp.status = 500

\* C9: every successfully created Thought is persisted with hearts = 0 and
\* a generated id, whatever else the body carries, with an id no other
\* persisted record has, and a createdAt not before the request was issued.
C9_CreatedWithDefaults ==
  /\ (resp.req.kind = "create" /\ resp.status = 201) =>
       /\ resp.doc.hearts = 0
       /\ resp.doc.createdAt >= resp.req.issuedAt
       /\ resp.doc.message = resp.req.body.message
       /\ \E i \in Persisted : thoughts[i] = resp.doc
  /\ \A i \in Persisted : thoughts[i].hearts = 0
  /\ \A i, j \in Persisted : i # j => thoughts[i].id # thoughts[j].id
  /\ \A s \in Slots : (slots[s].phase # "idle" /\ slots[s].req.kind = "create") =>
       /\ slots[s].doc.createdAt >= slots[s].req.issuedAt
       /\ \A i \in Persisted : thoughts[i].id = slots[s].doc.id => thoughts[i] = slots[s].doc

\* A body carrying hearts, id and createdAt, issued after time 0, was
\* created as the second record.
C9_Witness ==
  /\ resp.req.kind = "create"
  /\ resp.status = 201
  /\ resp.req.body.hearts.has
  /\ resp.req.issuedAt > 0
  /\ Len(thoughts) = 2

\* C10: a persisted record's id, message and createdAt never change and no
\* record is removed; a successful like changes only the hearts of the
\* record it targets, by +1 or -1; no other step changes any hearts.
C10_OnlyHeartsChange ==
  [][/\ Len(thoughts') >= Len(thoughts)
     /\ \A i \in Persisted :
          /\ thoughts'[i].id = thoughts[i].id
          /\ thoughts'[i].message = thoughts[i].message
          /\ thoughts'[i].createdAt = thoughts[i].createdAt
     /\ \A s \in Slots :
          (ExecStep(s, "like") /\ slots'[s].result.ok /\ slots'[s].result.found) =>
            \A i \in Persisted :
              IF thoughts[i].id = slots[s].req.id
              THEN thoughts'[i].hearts - thoughts[i].hearts
                     = (IF slots[s].req.action = "add" THEN 1 ELSE -1)
              ELSE thoughts'[i] = thoughts[i]
     /\ \A s \in Slots :
          (ExecStep(s, "like") /\ ~slots'[s].result.found) => thoughts' = thoughts
     /\ (\A s \in Slots : ~ExecStep(s, "like")) =>
          \A i \in Persisted : thoughts'[i].hearts = thoughts[i].hearts]_vars

\* A like was answered for one of two records created at different times,
\* and the other still has no hearts.
C10_Witness ==
  /\ resp.req.kind = "like"
  /\ resp.status = 200
  /\ Len(thoughts) = 2
  /\ thoughts[1].createdAt # thoughts[2].createdAt
  /\ \E i \in Persisted : thoughts[i].id # resp.req.id /\ thoughts[i].hearts = 0

====
